---- MODULE Spec2Model ----
(***************************************************************************)
(* The versioned publish/archive protocol ("smart upload") of the ISTAT    *)
(* data pipeline service: src/main.py and the producers under              *)
(* src/pipelines.  The Google Drive store is a set of file records; one    *)
(* pipeline run is a sequence of steps, one per store operation, and each  *)
(* store operation may fail.                                               *)
(*                                                                         *)
(* Time is kept at the granularity of the calendar month: clock counts     *)
(* months (year * 12 + month - 1), and strftime renders the day and the    *)
(* time of day as the first instant of the month.                          *)
(***************************************************************************)
EXTENDS Integers, Sequences, FiniteSets, TLC

(***************************************************************************)
(* Bounds of the model.                                                    *)
(***************************************************************************)
\* HTTP triggers served in one behaviour
MaxRuns == 2
\* months the clock may advance past StartClock
MaxTicks == 1
\* failures of a collaborator (the data source, a Drive call) in one behaviour
MaxFaults == 1

(***************************************************************************)
(* Python values and string functions.                                     *)
(***************************************************************************)
\* Python's None (no cell of a workbook renders as this text)
PyNone == "<None>"

\* truthiness of an Optional[str]
Truthy(v) == v # PyNone /\ v # ""

Min(a, b) == IF a < b THEN a ELSE b

Char(s, i) == SubSeq(s, i, i)

\* s[n:] for 0 <= n
Drop(s, n) == IF n >= Len(s) THEN "" ELSE SubSeq(s, n + 1, Len(s))

\* s[:n]
Take(s, n) == IF n <= 0 \/ Len(s) = 0 THEN "" ELSE SubSeq(s, 1, Min(n, Len(s)))

StartsWith(s, p) == Len(s) >= Len(p) /\ Take(s, Len(p)) = p

\* str.replace(old, new), old non-empty: every occurrence, left to right
RECURSIVE StrReplace(_, _, _)
StrReplace(s, old, new) ==
    IF Len(s) < Len(old) THEN s
    ELSE IF StartsWith(s, old)
         THEN new \o StrReplace(Drop(s, Len(old)), old, new)
         ELSE Char(s, 1) \o StrReplace(Drop(s, 1), old, new)

\* str.strip() = '' : the string holds blanks only
\* the characters str.strip() removes
Whitespace == {" ", "\t", "\n", "\r", "\f"}

RECURSIVE IsBlank(_)
IsBlank(s) == Len(s) = 0 \/ (Char(s, 1) \in Whitespace /\ IsBlank(Drop(s, 1)))

DigitChars == <<"0", "1", "2", "3", "4", "5", "6", "7", "8", "9">>

IsDigit(c) == \E i \in 1..Len(DigitChars) : DigitChars[i] = c

DigitVal(c) == (CHOOSE i \in 1..Len(DigitChars) : DigitChars[i] = c) - 1

AllDigits(s) == \A i \in 1..Len(s) : IsDigit(Char(s, i))

RECURSIVE IntOf(_)
IntOf(s) == IF Len(s) = 0 THEN 0
            ELSE IntOf(Take(s, Len(s) - 1)) * 10 + DigitVal(Char(s, Len(s)))

\* "%m", "%d": two digits, zero padded
Pad2(n) == IF n < 10 THEN "0" \o ToString(n) ELSE ToString(n)

(***************************************************************************)
(* The clock: datetime.now() and its renderings.                           *)
(***************************************************************************)
StartClock == 2025 * 12 + 10

YearOf(c) == c \div 12

MonthOf(c) == (c % 12) + 1

\* strftime("%YM%m"), e.g. "2025M12"
MonthToken(c) == ToString(YearOf(c)) \o "M" \o Pad2(MonthOf(c))

\* strftime("%Y-%m-%d %H:%M:%S")
DateTimeStr(c) ==
    ToString(YearOf(c)) \o "-" \o Pad2(MonthOf(c)) \o "-01 00:00:00"

\* strftime("%Y%m%d_%H%M%S")
FallbackTimestamp(c) == ToString(YearOf(c)) \o Pad2(MonthOf(c)) \o "01_000000"

\* pd.to_datetime on the texts the model stores as download_date:
\* "YYYY-MM-DD" or "YYYY-MM-DD HH:MM:SS" with a month 1..12 and a day 1..31
\* parses, anything else raises.
DateParses(s) ==
    /\ Len(s) = 10 \/ (Len(s) = 19 /\ Char(s, 11) = " ")
    /\ AllDigits(SubSeq(s, 1, 4)) /\ Char(s, 5) = "-"
    /\ AllDigits(SubSeq(s, 6, 7)) /\ Char(s, 8) = "-"
    /\ AllDigits(SubSeq(s, 9, 10))
    /\ IntOf(SubSeq(s, 6, 7)) \in 1..12
    /\ IntOf(SubSeq(s, 9, 10)) \in 1..31

\* the month (as a clock value) of a text that parses
ParsedMonth(s) == IntOf(SubSeq(s, 1, 4)) * 12 + IntOf(SubSeq(s, 6, 7)) - 1

(***************************************************************************)
(* Configuration (src/main.py) and the producers (src/pipelines).          *)
(***************************************************************************)
DRIVE_FOLDER_ID == "0ACZ58HkBSJpjUk9PVA"

ARCHIVE_FOLDER_ID == "1wT0j1Hz26TW9v891LQ2ZFSpGHwQkkAmu"

LOG_FILENAME == "pipeline_log.txt"

\* the modules discover_pipelines finds under pipelines/
Pipelines == {"istat_reddito_famiglie", "istat_consumi_famiglie",
              "nic_tipologia", "nic_ecoicop", "example_datedownload_pipeline"}

OUTPUT_FILENAME(p) ==
    CASE p = "istat_reddito_famiglie" -> "ISTAT_Reddito_disponibile_famiglie_LATEST.xlsx"
      [] p = "istat_consumi_famiglie" -> "Consumi_famiglie_LATEST.xlsx"
      [] p = "nic_tipologia" -> "NIC_Tipologia_LATEST.xlsx"
      [] p = "nic_ecoicop" -> "NIC_ECOICOP_LATEST.xlsx"
      [] p = "example_datedownload_pipeline" -> "Example_data_LATEST.xlsx"

\* result['folder_id'], PyNone when the result has no such key
OUTPUT_FOLDER_ID(p) ==
    CASE p = "istat_reddito_famiglie" -> "1GoRcfLt-k3ZAg-j2S1b4k_0ADKy5eYTZ"
      [] p = "istat_consumi_famiglie" -> "1GoRcfLt-k3ZAg-j2S1b4k_0ADKy5eYTZ"
      [] p = "nic_tipologia" -> "1Gt7XvvNrnFgpkBEC38lwUXtckurtAK29"
      [] p = "nic_ecoicop" -> PyNone
      [] p = "example_datedownload_pipeline" -> PyNone

\* the pipelines whose source has editions
EditionPipelines == {"istat_reddito_famiglie", "istat_consumi_famiglie"}

\* the editions the data source may serve to find_latest_edition (or the
\* DEFAULT_EDITION fallback); PyNone for a source without editions
SourceEditions(p) ==
    CASE p = "istat_reddito_famiglie" -> {"2025M10"}
      [] p = "istat_consumi_famiglie" -> {"2025M09", "2025M10"}
      [] OTHER -> {PyNone}

\* the name of the sheet the producer writes its key/value table to
MetaSheetName(p) ==
    CASE p = "nic_tipologia" -> "Metadata"
      [] p = "nic_ecoicop" -> "Metadata"
      [] OTHER -> "Metadati"

\* the rows of that table the reader has keys for, in the order written
MetaRows(p, edition, c) ==
    CASE p = "istat_reddito_famiglie" ->
            << <<"edition", edition>>, <<"edition_type", "Edition">>,
               <<"download_date", DateTimeStr(c)>>,
               <<"download_date", DateTimeStr(c)>> >>
      [] p = "istat_consumi_famiglie" ->
            << <<"edition", edition>>, <<"edition_type", "Edition">>,
               <<"download_date", DateTimeStr(c)>> >>
      [] OTHER ->
            << <<"edition", "">>, <<"edition_type", "DateDownload">>,
               <<"download_date", DateTimeStr(c)>> >>

\* a workbook: its metadata sheet and, as data, the serial of the run that
\* built it (the data sheets are an opaque payload)
Workbook(sheet, rows, data) ==
    [kind |-> "xlsx", sheet |-> sheet, rows |-> rows, data |-> data, text |-> ""]

TextFile(text) ==
    [kind |-> "txt", sheet |-> "", rows |-> <<>>, data |-> 0, text |-> text]

\* module.run_pipeline() when it succeeds: the result dict
run_pipeline(p, edition, c, serial) ==
    [status |-> "success",
     buffer |-> Workbook(MetaSheetName(p), MetaRows(p, edition, c), serial),
     filename |-> OUTPUT_FILENAME(p),
     edition |-> edition,
     folder_id |-> OUTPUT_FOLDER_ID(p)]

(***************************************************************************)
(* Google Drive utilities of src/main.py, as functions of the store.       *)
(* A file is [id, name, parents, content].                                 *)
(***************************************************************************)
\* a variant that queries the main folder whatever folder it is given
find_file_by_name_MainFolder(fs, filename, folder_id) ==
    {f \in fs : f.name = filename /\ DRIVE_FOLDER_ID \in f.parents}

\* the files the query of find_file_by_name matches; the function returns
\* the first of the list Drive answers with
find_file_by_name(fs, filename, folder_id) ==
    {f \in fs : f.name = filename /\ folder_id \in f.parents}

FileById(fs, id) == CHOOSE f \in fs : f.id = id

NoMetadata == [edition |-> PyNone, edition_type |-> PyNone, download_date |-> PyNone]

\* str(value) if pd.notna(value) else None: a blank cell reads as NaN
CellValue(v) == IF v = "" THEN PyNone ELSE v

RECURSIVE MetaFromRows(_, _)
MetaFromRows(rows, metadata) ==
    IF rows = <<>> THEN metadata
    ELSE LET key == Head(rows)[1]
             value == Head(rows)[2]
             next == IF key = "edition"
                        THEN [metadata EXCEPT !.edition = CellValue(value)]
                     ELSE IF key = "edition_type"
                        THEN [metadata EXCEPT !.edition_type = CellValue(value)]
                     ELSE IF key = "download_date"
                        THEN [metadata EXCEPT !.download_date = CellValue(value)]
                     ELSE metadata
         IN  MetaFromRows(Tail(rows), next)

\* get_metadata_from_excel once the download succeeded: a workbook without a
\* sheet named 'Metadati' makes pd.read_excel raise, which the function
\* answers with the all-None dict
get_metadata_from_excel(content) ==
    IF content.kind = "xlsx" /\ content.sheet = "Metadati"
    THEN MetaFromRows(content.rows, NoMetadata)
    ELSE NoMetadata

\* a variant that appends the version suffix to the current name
ArchivedName_Appends(filename, version_suffix) ==
    filename \o "_" \o version_suffix

\* archived_name of move_file_to_archive
ArchivedName(filename, version_suffix) ==
    StrReplace(filename, "_LATEST", "_" \o version_suffix)

\* a variant of the store in which the update of one file carries along the
\* files of its name in its folders
StoreAfterUpdate_MovesNamesakes(fs, f, g) ==
    {h \in fs : ~(h.name = f.name /\ h.parents = f.parents)}
        \cup {[h EXCEPT !.name = g.name, !.parents = g.parents, !.content = g.content] :
                 h \in {k \in fs : k.name = f.name /\ k.parents = f.parents}}

\* a variant of the store that keeps one file per name: the updated file
\* takes the place of the files named like it
StoreAfterUpdate_OnePerName(fs, f, g) ==
    {h \in fs : h # f /\ h.name # g.name} \cup {g}

\* the store after files().update(fileId=...) turned file f into g: Drive
\* addresses files by id, and no other file is touched
StoreAfterUpdate(fs, f, g) ==
    (fs \ {f}) \cup {g}

\* a variant of the store in which a created file takes the place of the
\* files of its name in its folder
StoreAfterCreate_OnePerName(fs, g) ==
    {h \in fs : ~(h.name = g.name /\ h.parents = g.parents)} \cup {g}

\* the store after files().create: Drive gives the file a new id and keeps
\* every other file, also one of the same name in the same folder
StoreAfterCreate(fs, g) ==
    fs \cup {g}

\* a variant that takes the file out of its folders and files it nowhere
DriveMove_Unfiled(f, add_parent, remove_parents, new_name) ==
    [f EXCEPT !.name = new_name, !.parents = f.parents \ remove_parents]

\* a variant that renames the file and leaves its parents alone
DriveMove_RenameOnly(f, add_parent, remove_parents, new_name) ==
    [f EXCEPT !.name = new_name]

\* files().update(addParents, removeParents, body={'name': ...}) on one file
DriveMove(f, add_parent, remove_parents, new_name) ==
    [f EXCEPT !.name = new_name,
              !.parents = (f.parents \cup {add_parent}) \ remove_parents]

(***************************************************************************)
(* The version resolver inside smart_upload.                               *)
(***************************************************************************)
\* a variant that takes every non-empty edition, blank or not, as an edition
NewVersion_NoStrip(edition, current_month) ==
    LET has_edition == edition # PyNone /\ edition # ""
        type == IF has_edition THEN "Edition" ELSE "DateDownload"
        value == IF has_edition THEN edition ELSE current_month
    IN  [has_edition |-> has_edition, type |-> type, value |-> value,
         suffix |-> value \o "_" \o type]

\* has_edition, new_version_type, new_version_value, new_version_suffix
NewVersion(edition, current_month) ==
    LET has_edition == edition # PyNone /\ ~IsBlank(edition)
        type == IF has_edition THEN "Edition" ELSE "DateDownload"
        value == IF has_edition THEN edition ELSE current_month
    IN  [has_edition |-> has_edition, type |-> type, value |-> value,
         suffix |-> value \o "_" \o type]

\* a variant that compares the strings also when the candidate has no edition
EditionVersion_CompareOnly(meta, has_edition, new_version_value) ==
    [suffix |-> meta.edition \o "_Edition",
     should_archive |-> meta.edition # new_version_value,
     warning |-> FALSE]

\* a variant that archives whatever the two editions are
EditionVersion_AlwaysArchive(meta, has_edition, new_version_value) ==
    [suffix |-> meta.edition \o "_Edition",
     should_archive |-> TRUE,
     warning |-> FALSE]

\* lines 211-213 and 232-235: the occupant carries an edition
EditionVersion(meta, has_edition, new_version_value) ==
    [suffix |-> meta.edition \o "_Edition",
     should_archive |-> IF has_edition THEN meta.edition # new_version_value ELSE TRUE,
     warning |-> FALSE]

\* a variant that tags an unparseable date with its whole text
DateDownloadVersion_WholeText(meta, current_month) ==
    IF Truthy(meta.download_date)
    THEN IF DateParses(meta.download_date)
         THEN LET existing_month == MonthToken(ParsedMonth(meta.download_date))
              IN  [suffix |-> existing_month \o "_DateDownload",
                   should_archive |-> existing_month # current_month,
                   warning |-> FALSE]
         ELSE [suffix |-> StrReplace(meta.download_date, "-", "M") \o "_DateDownload",
               should_archive |-> TRUE,
               warning |-> FALSE]
    ELSE [suffix |-> "unknown_DateDownload", should_archive |-> TRUE, warning |-> FALSE]

\* a variant that tags the archived file with the month of the run
DateDownloadVersion_NewSuffix(meta, current_month) ==
    IF Truthy(meta.download_date)
    THEN IF DateParses(meta.download_date)
         THEN LET existing_month == MonthToken(ParsedMonth(meta.download_date))
              IN  [suffix |-> current_month \o "_DateDownload",
                   should_archive |-> existing_month # current_month,
                   warning |-> FALSE]
         ELSE [suffix |-> StrReplace(Take(meta.download_date, 7), "-", "M")
                              \o "_DateDownload",
               should_archive |-> TRUE,
               warning |-> FALSE]
    ELSE [suffix |-> "unknown_DateDownload", should_archive |-> TRUE, warning |-> FALSE]

\* lines 215-230: the occupant is versioned by its download month
DateDownloadVersion(meta, current_month) ==
    IF Truthy(meta.download_date)
    THEN IF DateParses(meta.download_date)
         THEN LET existing_month == MonthToken(ParsedMonth(meta.download_date))
              IN  [suffix |-> existing_month \o "_DateDownload",
                   should_archive |-> existing_month # current_month,
                   warning |-> FALSE]
         ELSE [suffix |-> StrReplace(Take(meta.download_date, 7), "-", "M")
                              \o "_DateDownload",
               should_archive |-> TRUE,
               warning |-> FALSE]
    ELSE [suffix |-> "unknown_DateDownload", should_archive |-> TRUE, warning |-> FALSE]

\* a variant that prints no warning
NoMetadataVersion_Silent(fallback_timestamp) ==
    [suffix |-> fallback_timestamp \o "_ErrorNoMetadata",
     should_archive |-> TRUE,
     warning |-> FALSE]

\* lines 237-242: no metadata found
NoMetadataVersion(fallback_timestamp) ==
    [suffix |-> fallback_timestamp \o "_ErrorNoMetadata",
     should_archive |-> TRUE,
     warning |-> TRUE]

\* lines 210-242: existing_version_suffix, should_archive and whether the
\* warning is printed
ExistingVersion(meta, has_edition, new_version_value, current_month, fallback_timestamp) ==
    IF meta.edition_type = "Edition" /\ Truthy(meta.edition)
    THEN EditionVersion(meta, has_edition, new_version_value)
    ELSE IF meta.edition_type = "DateDownload"
    THEN DateDownloadVersion(meta, current_month)
    ELSE IF Truthy(meta.edition)
    THEN EditionVersion(meta, has_edition, new_version_value)
    ELSE NoMetadataVersion(fallback_timestamp)

\* output_folder_id of run_single_pipeline
OutputFolder(folder_id) ==
    IF folder_id = PyNone \/ folder_id = "" \/ StartsWith(folder_id, "YOUR_")
    THEN DRIVE_FOLDER_ID
    ELSE folder_id

\* a variant that writes every run down as updated
LogLine_AlwaysUpdated(timestamp, pipeline_name, status, version_info, details) ==
    "[" \o timestamp \o "] " \o pipeline_name \o ": updated; version: " \o version_info

\* log_line of update_log
LogLine(timestamp, pipeline_name, status, version_info, details) ==
    IF status = "updated"
    THEN "[" \o timestamp \o "] " \o pipeline_name \o ": updated; version: " \o version_info
    ELSE IF status = "not_updated"
    THEN "[" \o timestamp \o "] " \o pipeline_name \o ": not_updated; version: "
             \o version_info \o " (unchanged)"
    ELSE "[" \o timestamp \o "] " \o pipeline_name \o ": error; " \o details

(***************************************************************************)
(* State.                                                                  *)
(***************************************************************************)
VARIABLES
    files,    \* the Drive store: a set of [id, name, parents, content]
    nextId,   \* the id Drive gives the next file created
    clock,    \* datetime.now(), in months
    nruns,    \* HTTP triggers served so far
    nfaults,  \* collaborator failures so far
    run,      \* per request worker: the position and locals of its run
    prev,     \* what the last finished run was and returned
    batch     \* the /run/all request: pipelines left, results so far, response

vars == <<files, nextId, clock, nruns, nfaults, run, prev, batch>>

\* request workers; the sequential service uses the first one only
Runs == {1, 2}

SeqRuns == {1}

NoPrev == [pipeline_name |-> PyNone]

\* pipelines.items() in run_all: pkgutil.iter_modules lists the modules of
\* the package sorted by name
PipelineOrder == <<"example_datedownload_pipeline", "istat_consumi_famiglie",
                   "istat_reddito_famiglie", "nic_ecoicop", "nic_tipologia">>

\* no /run/all request so far
NoBatch == [active |-> FALSE, todo |-> <<>>, results |-> <<>>, response |-> PyNone]

\* a worker between requests
IdleRun ==
    [pc |-> "idle", pipeline_name |-> PyNone, serial |-> 0,
     \* run_single_pipeline
     edition |-> PyNone, output_folder_id |-> PyNone, filename |-> PyNone,
     buffer |-> TextFile(""),
     \* smart_upload
     resolved_at |-> 0, new_version |-> NewVersion(PyNone, ""),
     existing_file |-> 0, existing_meta |-> NoMetadata,
     existing_version |-> [suffix |-> PyNone, should_archive |-> FALSE, warning |-> FALSE],
     decision |-> PyNone,
     previous_parents |-> {}, archived |-> PyNone, uploaded |-> 0,
     upload_status |-> PyNone,
     \* update_log and the return
     status |-> PyNone, version_info |-> PyNone, log_from |-> PyNone,
     log_line |-> "", existing_log |-> 0, existing_content |-> "",
     logged |-> PyNone, ret |-> PyNone, raised |-> FALSE,
     \* history: calls made, whether one failed, the calls that failed, the
     \* store at the trigger
     calls |-> <<>>, faulty |-> FALSE, failed |-> {}, pre |-> {},
     \* whether another request was being served during this run
     overlap |-> FALSE]

\* the call of op in this run fails (raises, or is answered with an error)
Failing(rr, op) == [rr EXCEPT !.faulty = TRUE, !.failed = @ \cup {op}]

Called(rr, op) == \E i \in 1..Len(rr.calls) : rr.calls[i] = op

\* lines 274-283: the dict smart_upload returns after the upload (web_link
\* goes with file_id)
UploadResult(rr) ==
    [status |-> "updated",
     version_type |-> rr.new_version.type,
     version_value |-> rr.new_version.value,
     filename |-> rr.filename,
     file_id |-> rr.uploaded,
     folder_id |-> rr.output_folder_id,
     timestamp |-> DateTimeStr(rr.resolved_at)]

\* a variant in which the exception is dropped and the run goes on
Raise_GoesOn(rr) ==
    [rr EXCEPT !.pc = "find"]

\* an exception reaches the handler of run_single_pipeline (lines 394-398),
\* or leaves run_single_pipeline when it is raised inside that handler
Raise(rr) ==
    IF rr.log_from = "except"
    THEN [rr EXCEPT !.pc = "return", !.raised = TRUE, !.ret = PyNone]
    ELSE [rr EXCEPT !.pc = "log", !.log_from = "except", !.status = "error",
                    !.version_info = ""]

\* smart_upload returned, or the producer reported an error: update_log is
\* called from the body of run_single_pipeline with this status
ToLog(rr, status, version_info) ==
    [rr EXCEPT !.pc = "log", !.log_from = "body", !.status = status,
               !.version_info = version_info]

\* update_log returned (True or False): run_single_pipeline returns
AfterLog(rr, result) ==
    [rr EXCEPT !.pc = "return", !.logged = result,
               !.ret = IF rr.log_from = "except" THEN "error" ELSE rr.status]

\* smart_upload returns a dict with this status (lines 247, 265, 274)
SmartUploadReturns(rr, status, version_info) ==
    ToLog([rr EXCEPT !.upload_status = status], status, version_info)

\* a variant in which the unchanged version does not end smart_upload
AfterResolve_FallsThrough(rr) ==
    [rr EXCEPT !.pc = "archive_get",
               !.decision = IF rr.existing_version.should_archive THEN "replace" ELSE "skip"]

\* lines 246-254: the decision once the existing version is known
AfterResolve(rr) ==
    IF ~rr.existing_version.should_archive
    THEN SmartUploadReturns([rr EXCEPT !.decision = "skip"], "not_updated",
                            rr.new_version.suffix)
    ELSE [rr EXCEPT !.pc = "archive_get", !.decision = "replace"]

\* a variant that goes on to the upload although the archiving failed
ArchiveFailed_Proceeds(rr) ==
    [rr EXCEPT !.pc = "upload", !.archived = "False"]

\* lines 264-269: move_file_to_archive returned False
ArchiveFailed(rr) ==
    SmartUploadReturns([rr EXCEPT !.archived = "False"], "error", "unknown_unknown")

Outcomes == {"ok", "api_error", "no_service"}

\* a collaborator fails in this step / no collaborator fails in this step
Fault == nfaults < MaxFaults /\ nfaults' = nfaults + 1

NoFault == nfaults' = nfaults

(***************************************************************************)
(* The steps of one run.                                                   *)
(***************************************************************************)
\* /run/<pipeline_name>: the pipeline is found and run_single_pipeline starts
Start(r, p) ==
    /\ run[r].pc = "idle"
    /\ ~batch.active
    /\ nruns < MaxRuns
    /\ nruns' = nruns + 1
    /\ run' = [q \in Runs |->
                  IF q = r
                  THEN [IdleRun EXCEPT !.pc = "produce", !.pipeline_name = p,
                                       !.serial = nruns + 1, !.pre = files,
                                       !.overlap = \E o \in Runs : run[o].pc # "idle"]
                  ELSE IF run[q].pc # "idle" THEN [run[q] EXCEPT !.overlap = TRUE]
                  ELSE run[q]]
    /\ UNCHANGED <<files, nextId, clock, nfaults, prev, batch>>

\* module.run_pipeline() and lines 359-372 of run_single_pipeline
Produce(r) ==
    /\ run[r].pc = "produce"
    /\ LET rr == run[r]
       IN  \/ \* the producer raises
              /\ Fault
              /\ run' = [run EXCEPT ![r] = Raise(Failing(rr, "run_pipeline"))]
           \/ \* the producer returns status 'error'
              /\ Fault
              /\ run' = [run EXCEPT ![r] = ToLog(Failing(rr, "run_pipeline"), "error", "")]
           \/ \E e \in SourceEditions(rr.pipeline_name) :
                 LET result == run_pipeline(rr.pipeline_name, e, clock, rr.serial)
                 IN  /\ NoFault
                     /\ run' = [run EXCEPT ![r] =
                           [rr EXCEPT !.pc = "find",
                                      !.edition = result.edition,
                                      !.output_folder_id = OutputFolder(result.folder_id),
                                      !.filename = result.filename,
                                      !.buffer = result.buffer]]
    /\ UNCHANGED <<files, nextId, clock, nruns, prev, batch>>

\* smart_upload, lines 184-199: the new version and find_file_by_name
Find(r) ==
    /\ run[r].pc = "find"
    /\ LET rr == [run[r] EXCEPT !.resolved_at = clock,
                                !.new_version = NewVersion(run[r].edition, MonthToken(clock)),
                                !.calls = Append(@, "find_file_by_name")]
           found == find_file_by_name(files, rr.filename, rr.output_folder_id)
       IN  \/ \* the query fails: the exception leaves smart_upload
              /\ Fault
              /\ run' = [run EXCEPT ![r] = Raise(Failing(rr, "find_file_by_name"))]
           \/ /\ found = {}
              /\ NoFault
              /\ run' = [run EXCEPT ![r] = [rr EXCEPT !.pc = "upload", !.decision = "publish"]]
           \/ \E f \in found :
                 /\ NoFault
                 /\ run' = [run EXCEPT ![r] = [rr EXCEPT !.pc = "meta", !.existing_file = f.id]]
    /\ UNCHANGED <<files, nextId, clock, nruns, prev, batch>>

\* smart_upload, lines 203-254: get_metadata_from_excel and the decision
Resolve(r) ==
    /\ run[r].pc = "meta"
    /\ \E outcome \in Outcomes :
          LET called == [run[r] EXCEPT !.calls = Append(@, "get_metadata_from_excel")]
              rr == IF outcome = "ok" THEN called
                    ELSE Failing(called, "get_metadata_from_excel")
              meta == IF outcome = "ok"
                      THEN get_metadata_from_excel(FileById(files, rr.existing_file).content)
                      ELSE NoMetadata
              ev == ExistingVersion(meta, rr.new_version.has_edition, rr.new_version.value,
                                    MonthToken(rr.resolved_at), FallbackTimestamp(clock))
              r2 == [rr EXCEPT !.existing_meta = meta, !.existing_version = ev]
          IN  /\ IF outcome = "ok" THEN NoFault ELSE Fault
              /\ run' = [run EXCEPT ![r] =
                    IF outcome = "no_service" THEN Raise(rr)
                    ELSE AfterResolve(r2)]
    /\ UNCHANGED <<files, nextId, clock, nruns, prev, batch>>

\* move_file_to_archive, lines 120-126: the service and the file's parents
ArchiveGet(r) ==
    /\ run[r].pc = "archive_get"
    /\ \E outcome \in Outcomes :
          LET called == [run[r] EXCEPT !.calls = Append(@, "move_file_to_archive")]
              rr == IF outcome = "ok" THEN called
                    ELSE Failing(called, "move_file_to_archive")
          IN  /\ IF outcome = "ok" THEN NoFault ELSE Fault
              /\ run' = [run EXCEPT ![r] =
                    CASE outcome = "no_service" -> Raise(rr)
                      [] outcome = "api_error" -> ArchiveFailed(rr)
                      [] outcome = "ok" ->
                           [rr EXCEPT !.pc = "archive_update",
                                      !.previous_parents =
                                          FileById(files, rr.existing_file).parents]]
    /\ UNCHANGED <<files, nextId, clock, nruns, prev, batch>>

\* move_file_to_archive, lines 128-138: the one update that renames and moves
ArchiveUpdate(r) ==
    /\ run[r].pc = "archive_update"
    /\ LET rr == run[r]
           f == FileById(files, rr.existing_file)
           archived_name == ArchivedName(rr.filename, rr.existing_version.suffix)
       IN  \/ /\ Fault
              /\ run' = [run EXCEPT ![r] = ArchiveFailed(Failing(rr, "move_file_to_archive"))]
              /\ files' = files
           \/ /\ NoFault
              /\ files' = StoreAfterUpdate(files, f,
                    DriveMove(f, ARCHIVE_FOLDER_ID, rr.previous_parents, archived_name))
              /\ run' = [run EXCEPT ![r] = [rr EXCEPT !.pc = "upload", !.archived = "True"]]
    /\ UNCHANGED <<nextId, clock, nruns, prev, batch>>

\* upload_excel_to_drive and lines 272-283 of smart_upload
Upload(r) ==
    /\ run[r].pc = "upload"
    /\ LET rr == [run[r] EXCEPT !.calls = Append(@, "upload_excel_to_drive")]
       IN  \/ /\ Fault
              /\ run' = [run EXCEPT ![r] = Raise(Failing(rr, "upload_excel_to_drive"))]
              /\ UNCHANGED <<files, nextId>>
           \/ /\ NoFault
              /\ files' = StoreAfterCreate(files, [id |-> nextId, name |-> rr.filename,
                                                    parents |-> {rr.output_folder_id},
                                                    content |-> rr.buffer])
              /\ nextId' = nextId + 1
              /\ run' = [run EXCEPT ![r] =
                    LET done == [rr EXCEPT !.uploaded = nextId]
                        upload_result == UploadResult(done)
                    IN  SmartUploadReturns(done, upload_result.status,
                                           upload_result.version_value \o "_"
                                               \o upload_result.version_type)]
    /\ UNCHANGED <<clock, nruns, prev, batch>>

\* a variant that writes the new line alone
NewLogContent_Overwrites(existing_content, log_line) ==
    log_line \o "\n"

\* new_content of update_log (and the content of a log it creates)
NewLogContent(existing_content, log_line) ==
    existing_content \o log_line \o "\n"

\* update_log, lines 291-312: the service, the log line, the log file's
\* current content
LogRead(r) ==
    /\ run[r].pc = "log"
    /\ LET rr == [run[r] EXCEPT !.calls = Append(@, "update_log"),
                                !.log_line = LogLine(DateTimeStr(clock), run[r].pipeline_name,
                                                     run[r].status, run[r].version_info, "")]
           found == find_file_by_name(files, LOG_FILENAME, DRIVE_FOLDER_ID)
       IN  \/ \* get_drive_service raises, outside the try of update_log; in
              \* the except handler this is the failure that brought the
              \* run there lasting on (or one more), and it is not counted
              /\ IF rr.log_from = "except" THEN NoFault ELSE Fault
              /\ run' = [run EXCEPT ![r] = Raise(Failing(rr, "update_log"))]
           \/ \* the query or the download raises: update_log returns False
              /\ Fault
              /\ run' = [run EXCEPT ![r] = AfterLog(Failing(rr, "update_log"), "False")]
           \/ /\ found = {}
              /\ NoFault
              /\ run' = [run EXCEPT ![r] = [rr EXCEPT !.pc = "log_write",
                                                      !.existing_log = 0,
                                                      !.existing_content = ""]]
           \/ \E f \in found :
                 /\ NoFault
                 /\ run' = [run EXCEPT ![r] = [rr EXCEPT !.pc = "log_write",
                                                         !.existing_log = f.id,
                                                         !.existing_content = f.content.text]]
    /\ UNCHANGED <<files, nextId, clock, nruns, prev, batch>>

\* update_log, lines 313-325: the whole content is written back, or the log
\* file is created
LogWrite(r) ==
    /\ run[r].pc = "log_write"
    /\ LET rr == run[r]
       IN  \/ /\ Fault
              /\ run' = [run EXCEPT ![r] = AfterLog(Failing(rr, "update_log"), "False")]
              /\ UNCHANGED <<files, nextId>>
           \/ /\ rr.existing_log # 0
              /\ NoFault
              /\ LET f == FileById(files, rr.existing_log)
                 IN  files' = StoreAfterUpdate(files, f,
                        [f EXCEPT !.content =
                             TextFile(NewLogContent(rr.existing_content, rr.log_line))])
              /\ nextId' = nextId
              /\ run' = [run EXCEPT ![r] = AfterLog(rr, "True")]
           \/ /\ rr.existing_log = 0
              /\ NoFault
              /\ files' = StoreAfterCreate(files,
                              [id |-> nextId, name |-> LOG_FILENAME,
                               parents |-> {DRIVE_FOLDER_ID},
                               content |-> TextFile(NewLogContent("", rr.log_line))])
              /\ nextId' = nextId + 1
              /\ run' = [run EXCEPT ![r] = AfterLog(rr, "True")]
    /\ UNCHANGED <<clock, nruns, prev, batch>>

\* run_all, line 482: results[name] = run_single_pipeline(name, module); an
\* exception of run_single_pipeline leaves the loop and run_all
AfterRun(b, rr) ==
    IF ~b.active THEN b
    ELSE IF rr.raised
    THEN [b EXCEPT !.active = FALSE, !.response = "raised"]
    ELSE [b EXCEPT !.results = Append(@, <<rr.pipeline_name, rr.ret>>)]

\* run_single_pipeline returns (or raises) and the response is sent
Return(r) ==
    /\ run[r].pc = "return"
    /\ prev' = [pipeline_name |-> run[r].pipeline_name, edition |-> run[r].edition,
                resolved_at |-> run[r].resolved_at, ret |-> run[r].ret,
                decision |-> run[r].decision, faulty |-> run[r].faulty]
    /\ run' = [run EXCEPT ![r] = IdleRun]
    /\ UNCHANGED <<files, nextId, clock, nruns, nfaults>>
    /\ batch' = AfterRun(batch, run[r])

\* /run/all, lines 475-478: the pipelines are discovered; the model serves
\* this request on the fresh store, as the last trigger of a behaviour
run_all ==
    /\ \A r \in Runs : run[r].pc = "idle"
    /\ ~batch.active
    /\ nruns = 0
    /\ nruns' = MaxRuns
    /\ batch' = [active |-> TRUE, todo |-> PipelineOrder, results |-> <<>>,
                 response |-> PyNone]
    /\ UNCHANGED <<files, nextId, clock, nfaults, run, prev>>

\* run_all, lines 480-482: the loop takes the next pipeline
RunNext(r) ==
    /\ batch.active
    /\ run[r].pc = "idle"
    /\ batch.todo # <<>>
    /\ run' = [run EXCEPT ![r] = [IdleRun EXCEPT !.pc = "produce",
                                                 !.pipeline_name = Head(batch.todo),
                                                 !.serial = Len(batch.results) + 1,
                                                 !.pre = files]]
    /\ batch' = [batch EXCEPT !.todo = Tail(@)]
    /\ UNCHANGED <<files, nextId, clock, nruns, nfaults, prev>>

\* run_all, lines 484-489: the loop is over and the response is sent
RunAllReturns(r) ==
    /\ batch.active
    /\ run[r].pc = "idle"
    /\ batch.todo = <<>>
    /\ batch' = [batch EXCEPT !.active = FALSE, !.response = "completed"]
    /\ UNCHANGED <<files, nextId, clock, nruns, nfaults, run, prev>>

\* a month passes between two runs (a run is over within the month it
\* started in)
Tick ==
    /\ clock < StartClock + MaxTicks
    /\ \A r \in Runs : run[r].pc = "idle"
    /\ ~batch.active
    /\ nruns < MaxRuns
    /\ clock' = clock + 1
    /\ UNCHANGED <<files, nextId, nruns, nfaults, run, prev, batch>>

(***************************************************************************)
(* The store the service starts on: empty, or holding one file published   *)
(* by an earlier deployment in the slot of an edition pipeline or of a     *)
(* date-download pipeline, with any of these metadata tables; such a store *)
(* is followed for the one run that meets that file.                       *)
(***************************************************************************)
LegacyEditions == {"", "2025M10", "2025M11"}

LegacyEditionTypes == {"", "Edition", "DateDownload"}

LegacyDownloadDates == {"", "2025-11-03 11:00:00", "2025-12-03 11:00:00", "2025-13-40",
                        "ieri", "??-??-????"}

LegacySlots == {"istat_consumi_famiglie", "example_datedownload_pipeline"}

LegacyWorkbooks ==
    {Workbook("Metadati",
              << <<"edition", e>>, <<"edition_type", t>>, <<"download_date", d>> >>, 0) :
        e \in LegacyEditions, t \in LegacyEditionTypes, d \in LegacyDownloadDates}

LegacyStores ==
    {{[id |-> 1, name |-> OUTPUT_FILENAME(p),
       parents |-> {OutputFolder(OUTPUT_FOLDER_ID(p))}, content |-> w]} :
        p \in LegacySlots, w \in LegacyWorkbooks}

\* a store with a history: the occupant is of edition 2025M10 again, and the
\* archive holds the file an earlier occupant of that edition was moved to
HistoryStore ==
    {[id |-> 1, name |-> OUTPUT_FILENAME("istat_consumi_famiglie"),
      parents |-> {OutputFolder(OUTPUT_FOLDER_ID("istat_consumi_famiglie"))},
      content |-> Workbook("Metadati",
                           << <<"edition", "2025M10">>, <<"edition_type", "Edition">>,
                              <<"download_date", "2025-11-03 11:00:00">> >>, 0)],
     [id |-> 2,
      name |-> ArchivedName(OUTPUT_FILENAME("istat_consumi_famiglie"), "2025M10_Edition"),
      parents |-> {ARCHIVE_FOLDER_ID},
      content |-> Workbook("Metadati",
                           << <<"edition", "2025M10">>, <<"edition_type", "Edition">>,
                              <<"download_date", "2025-10-02 09:00:00">> >>, 0)]}

Init ==
    /\ \/ files = {} /\ nruns = 0
       \/ files \in LegacyStores \cup {HistoryStore} /\ nruns = MaxRuns - 1
    /\ nextId = 3
    /\ clock = StartClock
    /\ nfaults = 0
    /\ run = [r \in Runs |-> IdleRun]
    /\ prev = NoPrev
    /\ batch = NoBatch

Step(r) ==
    \/ \E p \in Pipelines : Start(r, p)
    \/ Produce(r)
    \/ Find(r)
    \/ Resolve(r)
    \/ ArchiveGet(r)
    \/ ArchiveUpdate(r)
    \/ Upload(r)
    \/ LogRead(r)
    \/ LogWrite(r)
    \/ Return(r)
    \/ RunNext(r)
    \/ RunAllReturns(r)

\* the service handles one request at a time
Next ==
    \/ \E r \in SeqRuns : Step(r)
    \/ run_all
    \/ Tick

Spec == Init /\ [][Next]_vars

(***************************************************************************)
(* Overlapping requests: the server handles each HTTP trigger in a worker  *)
(* of its own, and the steps of two runs interleave at the store calls.    *)
(* No collaborator fails here. The store is empty, or holds the run log    *)
(* of earlier runs, or holds that log and a slot two racing runs have both *)
(* published to.                                                           *)
(***************************************************************************)
Log0 ==
    [id |-> 3, name |-> LOG_FILENAME, parents |-> {DRIVE_FOLDER_ID},
     content |-> TextFile("[2025-10-01 00:00:00] nic_ecoicop: error; \n")]

RacedStore ==
    {[id |-> i, name |-> OUTPUT_FILENAME("istat_consumi_famiglie"),
      parents |-> {OutputFolder(OUTPUT_FOLDER_ID("istat_consumi_famiglie"))},
      content |-> Workbook("Metadati",
                           << <<"edition", "2025M10">>, <<"edition_type", "Edition">>,
                              <<"download_date", "2025-11-03 11:00:00">> >>, i)] :
        i \in {1, 2}}

\* the pipelines triggered while another request is being served: one with
\* editions, one without, one whose metadata sheet is not read back
OverlappingPipelines == {"istat_consumi_famiglie", "example_datedownload_pipeline",
                         "nic_tipologia"}

InitConc ==
    /\ \/ files \in {{}, {Log0}} /\ nruns = 0
       \/ files = RacedStore \cup {Log0} /\ nruns = MaxRuns - 1
    /\ nextId = 4
    /\ clock = StartClock
    /\ nfaults = MaxFaults
    /\ run = [r \in Runs |-> IdleRun]
    /\ prev = NoPrev
    /\ batch = NoBatch

NextConc ==
    \E r \in Runs :
        \/ \E p \in OverlappingPipelines : Start(r, p)
        \/ Produce(r)
        \/ Find(r)
        \/ Resolve(r)
        \/ ArchiveGet(r)
        \/ ArchiveUpdate(r)
        \/ Upload(r)
        \/ LogRead(r)
        \/ LogWrite(r)
        \/ Return(r)

SpecConc == InitConc /\ [][NextConc]_vars

(***************************************************************************)
(* Properties.                                                             *)
(***************************************************************************)
(***************************************************************************)
(* run_single_pipeline from line 364 on, for a result dict that declares   *)
(* any edition: the pipelines are whatever modules discover_pipelines      *)
(* finds, and smart_upload takes the edition it is handed. The artifact's  *)
(* own metadata table is that of one of the producers, whatever the        *)
(* edition declared.                                                       *)
(***************************************************************************)
DeclaredEditions ==
    {PyNone, "", " ", "\t", " \n ", "2025M10", " 2025M10", "2025M11", "M"}

DeclaringPipelines == {"istat_consumi_famiglie", "example_datedownload_pipeline"}

DeclaredRun(p, e, c, fs) ==
    LET result == [run_pipeline(p, "2025M09", c, 1) EXCEPT !.edition = e]
    IN  [IdleRun EXCEPT !.pc = "find", !.pipeline_name = p, !.serial = 1, !.pre = fs,
                        !.edition = result.edition,
                        !.output_folder_id = OutputFolder(result.folder_id),
                        !.filename = result.filename,
                        !.buffer = result.buffer]

DeclaredStores ==
    {{}, HistoryStore}
    \cup {{[id |-> 1, name |-> OUTPUT_FILENAME(p),
            parents |-> {OutputFolder(OUTPUT_FOLDER_ID(p))},
            content |-> Workbook("Metadati", MetaRows(p, "2025M10", StartClock), 0)]} :
             p \in DeclaringPipelines}

InitDeclared ==
    /\ files \in DeclaredStores
    /\ nextId = 3
    /\ clock \in StartClock..(StartClock + MaxTicks)
    /\ nruns = MaxRuns
    /\ nfaults = MaxFaults
    /\ \E p \in DeclaringPipelines, e \in DeclaredEditions :
          run = [r \in Runs |-> IF r = 1 THEN DeclaredRun(p, e, clock, files) ELSE IdleRun]
    /\ prev = NoPrev
    /\ batch = NoBatch

NextDeclared ==
    \E r \in SeqRuns :
        \/ Find(r)
        \/ Resolve(r)
        \/ ArchiveGet(r)
        \/ ArchiveUpdate(r)
        \/ Upload(r)
        \/ LogRead(r)
        \/ LogWrite(r)
        \/ Return(r)

SpecDeclared == InitDeclared /\ [][NextDeclared]_vars

\* the files under a pipeline's current name in its target folder
SlotFiles(fs, p) ==
    {f \in fs : /\ f.name = OUTPUT_FILENAME(p)
                /\ OutputFolder(OUTPUT_FOLDER_ID(p)) \in f.parents}

ArchiveFiles(fs) == {f \in fs : ARCHIVE_FOLDER_ID \in f.parents}

\* op a was called before op b in the run
CalledBefore(rr, a, b) ==
    \E i, j \in 1..Len(rr.calls) : i < j /\ rr.calls[i] = a /\ rr.calls[j] = b

\* C1: under sequential runs with store operations failing at will, every
\* (filename, target folder) slot holds at most one file under the current
\* name.
C1_AtMostOneCurrent ==
    \A p \in Pipelines : Cardinality(SlotFiles(files, p)) <= 1

\* a run that found an occupant has archived it and uploaded its successor
C1_Witness ==
    \E r \in Runs :
        /\ run[r].pc = "return"
        /\ run[r].archived = "True"
        /\ run[r].uploaded # 0
        /\ \E f \in ArchiveFiles(files) : f.id = run[r].existing_file
        /\ \E f \in SlotFiles(files, run[r].pipeline_name) : f.id = run[r].uploaded

\* C2: in a replacing run the upload is called only after
\* move_file_to_archive returned True; when it returned False, smart_upload
\* returns status 'error' (and so does the run, unless it raises), no upload
\* is attempted and the old occupant is the slot's file exactly as it was
\* when the run began.
C2_ArchiveBeforePublish ==
    \A r \in Runs :
        LET rr == run[r]
        IN  /\ (rr.decision = "replace" /\ Called(rr, "upload_excel_to_drive"))
                  => /\ rr.archived = "True"
                     /\ CalledBefore(rr, "move_file_to_archive", "upload_excel_to_drive")
            /\ rr.archived = "False"
                  => /\ rr.upload_status = "error"
                     /\ ~Called(rr, "upload_excel_to_drive")
                     /\ rr.uploaded = 0
                     /\ (rr.pc = "return" /\ ~rr.raised) => rr.ret = "error"
                     /\ SlotFiles(files, rr.pipeline_name)
                            = {f \in rr.pre : f.id = rr.existing_file}
                     /\ SlotFiles(rr.pre, rr.pipeline_name)
                            = {f \in rr.pre : f.id = rr.existing_file}

\* move_file_to_archive failed and the run has returned 'error'
C2_Witness ==
    \E r \in Runs :
        /\ run[r].pc = "return"
        /\ run[r].decision = "replace"
        /\ run[r].archived = "False"
        /\ run[r].ret = "error"

\* C3: a run that follows a completed run of the same pipeline with an
\* identical candidate (the same edition, or no edition and the same calendar
\* month), with nothing else touching the slot and no store call failing,
\* ends in Skip: smart_upload returns 'not_updated'.
C3_SecondRunSkips ==
    \A r \in Runs :
        LET rr == run[r]
        IN  (/\ rr.pc = "return"
             /\ prev.pipeline_name = rr.pipeline_name
             /\ prev.ret \in {"updated", "not_updated"}
             /\ ~prev.faulty
             /\ ~rr.faulty
             /\ prev.edition = rr.edition
             /\ (rr.edition = PyNone => prev.resolved_at = rr.resolved_at))
            => /\ rr.decision = "skip"
               /\ rr.upload_status = "not_updated"
               /\ rr.ret = "not_updated"

\* the resolver has decided on an occupant whose metadata it read
Decided(rr) == rr.decision \in {"skip", "replace"}

\* the calendar months of the model, by name
MonthName(c) ==
    CASE c = 2025 * 12 + 10 -> "2025M11"
      [] c = 2025 * 12 + 11 -> "2025M12"
      [] c = 2026 * 12 -> "2026M01"
      [] c = 2026 * 12 + 1 -> "2026M02"
      [] c = 2026 * 12 + 2 -> "2026M03"

\* the month token of a date text "YYYY-MM-..."
MonthTokenOfText(d) == SubSeq(d, 1, 4) \o "M" \o SubSeq(d, 6, 7)

\* C4: a candidate without edition meeting a DateDownload occupant whose
\* download_date parses is skipped when the occupant's month is the current
\* month and otherwise replaces it, the occupant archived under
\* '<occupant month>_DateDownload'; in 2025M12 a date of 2025-12-03 skips and
\* one of 2025-11-03 replaces with suffix 2025M11_DateDownload.
C4_MonthlyGating ==
    \A r \in Runs :
        LET rr == run[r]
            m == rr.existing_meta
            now == MonthName(rr.resolved_at)
        IN  (/\ Decided(rr)
             /\ ~rr.new_version.has_edition
             /\ m.edition_type = "DateDownload"
             /\ Truthy(m.download_date)
             /\ DateParses(m.download_date))
            => /\ MonthTokenOfText(m.download_date) = now
                    => rr.decision = "skip" /\ rr.upload_status = "not_updated"
               /\ MonthTokenOfText(m.download_date) # now
                    => /\ rr.decision = "replace"
                       /\ rr.existing_version.suffix
                              = MonthTokenOfText(m.download_date) \o "_DateDownload"
               /\ (now = "2025M12" /\ m.download_date = "2025-12-03 11:00:00")
                    => rr.decision = "skip"
               /\ (now = "2025M12" /\ m.download_date = "2025-11-03 11:00:00")
                    => /\ rr.decision = "replace"
                       /\ rr.existing_version.suffix = "2025M11_DateDownload"

\* in December 2025 an occupant downloaded on 2025-11-03 is replaced
C4_Witness ==
    \E r \in Runs :
        /\ run[r].decision = "replace"
        /\ run[r].edition = PyNone
        /\ run[r].existing_meta.edition_type = "DateDownload"
        /\ run[r].existing_meta.download_date = "2025-11-03 11:00:00"
        /\ MonthName(run[r].resolved_at) = "2025M12"
        /\ run[r].existing_version.suffix = "2025M11_DateDownload"

\* C5: a candidate without edition always replaces an occupant that carries
\* an edition (edition_type 'Edition', or none recorded), the occupant
\* archived under '<its edition>_Edition', whatever the edition and the month.
C5_SchemeSwitchReplaces ==
    \A r \in Runs :
        LET rr == run[r]
            m == rr.existing_meta
        IN  (/\ Decided(rr)
             /\ ~rr.new_version.has_edition
             /\ Truthy(m.edition)
             /\ m.edition_type \in {"Edition", PyNone})
            => /\ rr.decision = "replace"
               /\ rr.existing_version.suffix = m.edition \o "_Edition"

\* a legacy occupant whose edition reads like the current month is replaced
C5_Witness ==
    \E r \in Runs :
        /\ run[r].decision = "replace"
        /\ run[r].edition = PyNone
        /\ run[r].existing_meta.edition_type = PyNone
        /\ run[r].existing_meta.edition = MonthName(run[r].resolved_at)
        /\ run[r].existing_version.suffix = "2025M11_Edition"

\* C6: when occupant (edition_type 'Edition' or none recorded) and candidate
\* both carry an edition, the decision is Replace exactly when the two strings
\* differ and Skip exactly when they are equal; occupant 2025M10 with
\* candidate 2025M09 is replaced.
C6_EditionEquality ==
    \A r \in Runs :
        LET rr == run[r]
            m == rr.existing_meta
        IN  (/\ Decided(rr)
             /\ rr.new_version.has_edition
             /\ Truthy(m.edition)
             /\ m.edition_type \in {"Edition", PyNone})
            => /\ rr.decision = "replace" <=> m.edition # rr.edition
               /\ rr.decision = "skip" <=> m.edition = rr.edition
               /\ (m.edition = "2025M10" /\ rr.edition = "2025M09")
                    => rr.decision = "replace"
               /\ rr.decision = "replace"
                    => rr.existing_version.suffix = m.edition \o "_Edition"

\* occupant 2025M10, candidate 2025M09: replaced
C6_Witness ==
    \E r \in Runs :
        /\ run[r].decision = "replace"
        /\ run[r].edition = "2025M09"
        /\ run[r].existing_meta.edition = "2025M10"
        /\ run[r].existing_version.suffix = "2025M10_Edition"

\* an equal edition is skipped
C6_WitnessSkip ==
    \E r \in Runs :
        /\ run[r].decision = "skip"
        /\ run[r].edition = "2025M10"
        /\ run[r].existing_meta.edition = "2025M10"

\* the files that are not the run log
NonLog(fs) == {f \in fs : f.name # LOG_FILENAME}

\* the content of the run log, empty when there is none
LogText(fs) ==
    IF \E f \in fs : f.name = LOG_FILENAME
    THEN (CHOOSE f \in fs : f.name = LOG_FILENAME).content.text
    ELSE ""

\* C7: the first-write path is taken exactly when no file named filename is
\* in the target folder; it reads no metadata and never calls
\* move_file_to_archive, the archive stays as it was, and the upload, once it
\* succeeds, puts the candidate in the slot and makes smart_upload return
\* 'updated' (which is the run's status when no call fails).
C7_FirstWrite ==
    \A r \in Runs :
        LET rr == run[r]
            candidate == [id |-> rr.uploaded, name |-> rr.filename,
                          parents |-> {rr.output_folder_id}, content |-> rr.buffer]
        IN  /\ rr.decision = "publish"
                  => /\ SlotFiles(rr.pre, rr.pipeline_name) = {}
                     /\ ~Called(rr, "get_metadata_from_excel")
                     /\ ~Called(rr, "move_file_to_archive")
                     /\ ArchiveFiles(files) = ArchiveFiles(rr.pre)
                     /\ rr.uploaded # 0
                           => /\ rr.upload_status = "updated"
                              /\ SlotFiles(files, rr.pipeline_name) = {candidate}
                     /\ (rr.pc = "return" /\ ~rr.faulty)
                           => rr.uploaded # 0 /\ rr.ret = "updated"
            /\ Decided(rr) => SlotFiles(rr.pre, rr.pipeline_name) # {}

\* a run on an empty slot has uploaded the candidate and returned 'updated'
C7_Witness ==
    \E r \in Runs :
        /\ run[r].pc = "return"
        /\ run[r].decision = "publish"
        /\ run[r].uploaded # 0
        /\ run[r].ret = "updated"
        /\ run[r].calls = <<"find_file_by_name", "upload_excel_to_drive", "update_log">>

\* the archive tag of the no-metadata path: YYYYMMDD_HHMMSS_ErrorNoMetadata
IsErrorNoMetadataSuffix(sfx) ==
    /\ Len(sfx) = 31
    /\ AllDigits(SubSeq(sfx, 1, 8))
    /\ Char(sfx, 9) = "_"
    /\ AllDigits(SubSeq(sfx, 10, 15))
    /\ Drop(sfx, 15) = "_ErrorNoMetadata"

\* C8 as claimed: an occupant with neither edition nor download_date is
\* replaced under '<timestamp>_ErrorNoMetadata' with a warning, whatever its
\* edition_type.
C8_Original ==
    \A r \in Runs :
        LET rr == run[r]
            m == rr.existing_meta
        IN  (Decided(rr) /\ ~Truthy(m.edition) /\ ~Truthy(m.download_date))
            => /\ rr.decision = "replace"
               /\ IsErrorNoMetadataSuffix(rr.existing_version.suffix)
               /\ rr.existing_version.warning

\* C8 amended: an occupant with neither edition nor download_date is always
\* replaced; under '<timestamp>_ErrorNoMetadata' with a warning when its
\* edition_type is anything but 'DateDownload', and under
\* 'unknown_DateDownload' without a warning when it is 'DateDownload'.
C8_NoMetadataFallback ==
    \A r \in Runs :
        LET rr == run[r]
            m == rr.existing_meta
        IN  (Decided(rr) /\ ~Truthy(m.edition) /\ ~Truthy(m.download_date))
            => /\ rr.decision = "replace"
               /\ m.edition_type # "DateDownload"
                    => /\ IsErrorNoMetadataSuffix(rr.existing_version.suffix)
                       /\ rr.existing_version.warning
               /\ m.edition_type = "DateDownload"
                    => /\ rr.existing_version.suffix = "unknown_DateDownload"
                       /\ ~rr.existing_version.warning

\* an occupant of edition_type 'Edition' without edition and download_date
\* was read and is replaced with the warning
C8_Witness ==
    \E r \in Runs :
        /\ run[r].decision = "replace"
        /\ ~run[r].faulty
        /\ run[r].existing_meta = [edition |-> PyNone, edition_type |-> "Edition",
                                   download_date |-> PyNone]
        /\ run[r].existing_version.warning

\* C9: a run that decides Skip makes smart_upload return 'not_updated'
\* (the run's status when no call fails), calls neither
\* move_file_to_archive nor upload_excel_to_drive, and leaves every file but
\* the run log as it was; the run log only gains text at its end.
C9_SkipChangesNothing ==
    \A r \in Runs :
        LET rr == run[r]
        IN  rr.decision = "skip"
            => /\ rr.upload_status = "not_updated"
               /\ ~Called(rr, "move_file_to_archive")
               /\ ~Called(rr, "upload_excel_to_drive")
               /\ NonLog(files) = NonLog(rr.pre)
               /\ StartsWith(LogText(files), LogText(rr.pre))
               /\ (rr.pc = "return" /\ ~rr.faulty)
                     => /\ rr.ret = "not_updated"
                        /\ LogText(files) = LogText(rr.pre) \o rr.log_line \o "\n"

\* a skipping run has returned 'not_updated' and appended its log line
C9_Witness ==
    \E r \in Runs :
        /\ run[r].pc = "return"
        /\ run[r].decision = "skip"
        /\ run[r].ret = "not_updated"
        /\ LogText(files) # LogText(run[r].pre)
        /\ SlotFiles(files, run[r].pipeline_name) # {}

\* the current names of the pipelines
CurrentNames == {OUTPUT_FILENAME(p) : p \in Pipelines}

\* C10: move_file_to_archive is all or nothing. After it returned True the
\* occupant is in the archive folder only, under a name that is no current
\* name, its content untouched; otherwise the occupant is exactly as it was.
\* No workbook is ever renamed but not moved, or moved but not renamed.
C10_ArchiveAllOrNothing ==
    /\ \A f \in NonLog(files) :
          /\ ARCHIVE_FOLDER_ID \in f.parents <=> f.name \notin CurrentNames
          /\ ARCHIVE_FOLDER_ID \in f.parents => f.parents = {ARCHIVE_FOLDER_ID}
    /\ \A r \in Runs :
          LET rr == run[r]
          IN  rr.existing_file # 0
              => LET cur == FileById(files, rr.existing_file)
                     old == FileById(rr.pre, rr.existing_file)
                 IN  /\ rr.archived = "True"
                          => /\ cur.parents = {ARCHIVE_FOLDER_ID}
                             /\ cur.name # old.name
                             /\ cur.content = old.content
                     /\ rr.archived # "True" => cur = old

\* move_file_to_archive returned True and the occupant is in the archive
C10_Witness ==
    \E r \in Runs :
        /\ run[r].pc = "upload"
        /\ run[r].archived = "True"
        /\ FileById(files, run[r].existing_file).parents = {ARCHIVE_FOLDER_ID}
        /\ SlotFiles(files, run[r].pipeline_name) = {}

\* a current name without its ending "_LATEST.xlsx"
Stem(filename) == SubSeq(filename, 1, Len(filename) - 12)

\* the metadata is what the rows of this workbook say, a blank cell being None
ReadsAs(m, content) ==
    \A i \in 1..Len(content.rows) :
        LET k == content.rows[i][1]
            v == IF content.rows[i][2] = "" THEN PyNone ELSE content.rows[i][2]
        IN  /\ k = "edition" => m.edition = v
            /\ k = "edition_type" => m.edition_type = v
            /\ k = "download_date" => m.download_date = v

\* C11: once move_file_to_archive returned True, the occupant's name is the
\* current filename with '_LATEST' replaced by '_' and the version suffix
\* resolved for the occupant (X_LATEST.xlsx with 2025M11_DateDownload is
\* X_2025M11_DateDownload.xlsx). The suffix comes from the occupant's own
\* metadata (its edition, or the month of its download_date), it is not the
\* candidate's suffix, and the archived content is the occupant's content.
C11_ArchivedNameEncodesOldVersion ==
    \A r \in Runs :
        LET rr == run[r]
        IN  rr.archived = "True"
            => LET cur == FileById(files, rr.existing_file)
                   old == FileById(rr.pre, rr.existing_file)
                   m == rr.existing_meta
                   sfx == rr.existing_version.suffix
               IN  /\ old.name = rr.filename
                   /\ cur.name = Stem(rr.filename) \o "_" \o sfx \o ".xlsx"
                   /\ cur.content = old.content
                   /\ (~rr.faulty /\ old.content.sheet = "Metadati") => ReadsAs(m, old.content)
                   /\ (Truthy(m.edition) /\ m.edition_type \in {"Edition", PyNone})
                         => /\ sfx = m.edition \o "_Edition"
                            /\ sfx # rr.new_version.suffix
                   /\ (/\ m.edition_type = "DateDownload"
                       /\ Truthy(m.download_date)
                       /\ DateParses(m.download_date))
                         => /\ sfx = MonthTokenOfText(m.download_date) \o "_DateDownload"
                            /\ sfx # rr.new_version.suffix
                   /\ (rr.filename = "Example_data_LATEST.xlsx" /\ sfx = "2025M11_DateDownload")
                         => cur.name = "Example_data_2025M11_DateDownload.xlsx"

\* the occupant downloaded in November 2025 is archived under its month
C11_Witness ==
    \E r \in Runs :
        /\ run[r].archived = "True"
        /\ run[r].existing_meta.download_date = "2025-11-03 11:00:00"
        /\ \E f \in ArchiveFiles(files) :
              /\ f.id = run[r].existing_file
              /\ f.name = "Example_data_2025M11_DateDownload.xlsx"
              /\ f.content.data = 0

LogFiles(fs) == {f \in fs : f.name = LOG_FILENAME}

NoNewline(s) == \A i \in 1..Len(s) : Char(s, i) # "\n"

C13_LogFailureKeepsOutcome ==
    \A r \in Runs :
        LET rr == run[r]
        IN  (rr.pc = "return" /\ rr.upload_status # PyNone)
            => /\ ~rr.raised
               /\ rr.ret = rr.upload_status

\* C14: run_single_pipeline never raises; whatever fails, it returns a
\* result whose status is 'updated', 'not_updated' or 'error'.
C14_NeverRaises ==
    \A r \in Runs :
        run[r].pc = "return"
        => /\ ~run[r].raised
           /\ run[r].ret \in {"updated", "not_updated", "error"}

\* the producer has failed in this run: it returned status 'error' or raised,
\* and the run holds no result of it
ProducerFailed(rr) == rr.pc \notin {"idle", "produce"} /\ rr.filename = PyNone

\* C15: when the producer reports status 'error' or raises, the run calls
\* update_log with status 'error' and nothing else: smart_upload (whose first
\* store call is find_file_by_name) is never entered, every workbook in the
\* slots and in the archive stays as it was, and the line update_log appends
\* when it succeeds is the 'error' line of this pipeline.
C15_ProducerFailureStops ==
    \A r \in Runs :
        LET rr == run[r]
        IN  ProducerFailed(rr)
            => /\ rr.pc \in {"log", "log_write", "return"}
               /\ rr.status = "error"
               /\ \A i \in 1..Len(rr.calls) : rr.calls[i] = "update_log"
               /\ rr.upload_status = PyNone /\ rr.decision = PyNone /\ rr.uploaded = 0
               /\ NonLog(files) = NonLog(rr.pre)
               /\ rr.pc = "return"
                     => /\ Called(rr, "update_log")
                        /\ ~rr.raised => rr.ret = "error"
                        /\ rr.logged = "True"
                              => /\ LogText(files) = LogText(rr.pre) \o rr.log_line \o "\n"
                                 /\ Drop(rr.log_line, 22) = rr.pipeline_name \o ": error; "
                        /\ rr.logged # "True" => LogText(files) = LogText(rr.pre)

\* the producer failed on a store holding a workbook; the run has logged the
\* error and returned 'error'
C15_Witness ==
    \E r \in Runs :
        /\ ProducerFailed(run[r])
        /\ run[r].pc = "return"
        /\ run[r].ret = "error"
        /\ run[r].logged = "True"
        /\ NonLog(files) # {}
        /\ LogText(files) # LogText(run[r].pre)

\* C16: a run that returns 'not_updated' or 'error' without smart_upload
\* having returned 'updated' leaves every slot as it found it: the same
\* file, under the same name, with the same content.
C16_SlotChangesOnlyOnUpdated ==
    \A r \in Runs :
        LET rr == run[r]
        IN  (/\ rr.pc = "return"
             /\ rr.ret \in {"not_updated", "error"}
             /\ rr.upload_status # "updated")
            => \A p \in Pipelines : SlotFiles(files, p) = SlotFiles(rr.pre, p)

\* the store operations on the publish path of a run
PublishOps == {"find_file_by_name", "get_metadata_from_excel",
               "move_file_to_archive", "upload_excel_to_drive"}

\* C17: a run in which a store operation of the publish path failed returns
\* 'error' (when it returns a result at all), and no operation of the
\* publish path is made twice.
C17_StoreFailureIsError ==
    \A r \in Runs :
        LET rr == run[r]
        IN  /\ (rr.pc = "return" /\ ~rr.raised /\ rr.failed \cap PublishOps # {})
                  => rr.ret = "error"
            /\ \A i, j \in 1..Len(rr.calls) :
                  (i # j /\ rr.calls[i] = rr.calls[j]) => rr.calls[i] \notin PublishOps

\* C18: for a DateDownload occupant whose download_date parses, the decision
\* is Replace exactly when the occupant's month token differs from the
\* candidate's new value (its edition when it declares one, the current
\* month otherwise).
C18_ComparesNewValue ==
    \A r \in Runs :
        LET rr == run[r]
            m == rr.existing_meta
            new_value == IF Truthy(rr.edition) THEN rr.edition ELSE MonthName(rr.resolved_at)
        IN  (/\ Decided(rr)
             /\ m.edition_type = "DateDownload"
             /\ Truthy(m.download_date)
             /\ DateParses(m.download_date))
            => (rr.decision = "replace" <=> MonthTokenOfText(m.download_date) # new_value)

\* C19: the /run/all request ends with the response 'completed', holding
\* one outcome for every discovered pipeline, each run exactly once and in
\* turn, whatever the earlier pipelines ended in; while it is served, one
\* pipeline at most is running.
C19_RunAllCompletes ==
    /\ batch.active => Cardinality({r \in Runs : run[r].pc # "idle"}) <= 1
    /\ batch.response # PyNone
          => /\ batch.response = "completed"
             /\ Len(batch.results) = Len(PipelineOrder)
             /\ \A i \in 1..Len(batch.results) :
                   /\ batch.results[i][1] = PipelineOrder[i]
                   /\ batch.results[i][2] \in {"updated", "not_updated", "error"}
             /\ {PipelineOrder[i] : i \in 1..Len(PipelineOrder)} = Pipelines

\* C20: under sequential runs no step renames, moves, overwrites or deletes
\* a file that is in the archive: every archive entry is in the next state
\* the very same record, so the set of archive entries only grows, also when
\* a file is archived under the name an entry already has.
C20_ArchiveEntriesFixed ==
    [][\A f \in ArchiveFiles(files) : f \in files']_vars

\* a run has archived its occupant under the name of an older archive entry,
\* and that entry is still there
C20_Witness ==
    \E r \in Runs :
        /\ run[r].pc = "return"
        /\ run[r].archived = "True"
        /\ \E f, g \in ArchiveFiles(files) :
              /\ f.id # g.id
              /\ f.name = g.name
              /\ g.id = run[r].existing_file
              /\ f \in ArchiveFiles(run[r].pre)

\* the run has appended its log line to the log it found
Appended(rr) == LogText(files) = LogText(rr.pre) \o rr.log_line \o "\n"

\* the outcome written in the run's log line is this status
LineSays(rr, status) ==
    StartsWith(Drop(rr.log_line, 22), rr.pipeline_name \o ": " \o status \o ";")

\* C21 as claimed: every run has, when it returns, appended exactly one line
\* to the run log, and the outcome in it is the status the run returns.
C21_Original ==
    \A r \in Runs :
        LET rr == run[r]
        IN  rr.pc = "return" => Appended(rr) /\ LineSays(rr, rr.ret)

\* C21 amended: a run appends at most one line to the run log; it appends
\* exactly one when one of its update_log calls returns True and none when
\* the log write fails; the outcome written in that line is the status the
\* run returns.
C21_OneLinePerLoggedRun ==
    \A r \in Runs :
        LET rr == run[r]
        IN  /\ rr.pc # "idle" => Appended(rr) \/ LogText(files) = LogText(rr.pre)
            /\ rr.pc = "return"
                  => /\ rr.logged = "True" <=> Appended(rr)
                     /\ rr.logged # "True" => LogText(files) = LogText(rr.pre)
                     /\ rr.logged = "True"
                           => /\ ~rr.raised
                              /\ rr.ret \in {"updated", "not_updated", "error"}
                              /\ LineSays(rr, rr.ret)
                              /\ \A s \in {"updated", "not_updated", "error"} \ {rr.ret} :
                                    ~LineSays(rr, s)

\* a run that skipped has written 'not_updated' and returned 'not_updated'
C21_Witness ==
    \E r \in Runs :
        /\ run[r].pc = "return"
        /\ run[r].logged = "True"
        /\ run[r].ret = "not_updated"
        /\ Appended(run[r])
        /\ LineSays(run[r], "not_updated")

\* C22: two overlapping runs of one pipeline that both found the slot empty
\* both publish: each of the two uploads adds a file of its own, and the slot
\* holds two files under the same current name in the same folder. Nothing
\* makes the second run wait for, or see, the first.
C22_BothPublish ==
    \A r1, r2 \in Runs :
        LET a == run[r1]
            b == run[r2]
        IN  (/\ r1 # r2
             /\ a.pipeline_name = b.pipeline_name
             /\ a.decision = "publish" /\ b.decision = "publish"
             /\ a.uploaded # 0 /\ b.uploaded # 0)
            => /\ a.uploaded # b.uploaded
               /\ \E f, g \in SlotFiles(files, a.pipeline_name) :
                     /\ f.id = a.uploaded /\ g.id = b.uploaded
                     /\ f.name = g.name /\ f.parents = g.parents
                     /\ f.content = a.buffer /\ g.content = b.buffer
               /\ Cardinality(SlotFiles(files, a.pipeline_name)) >= 2

\* both runs saw the empty slot, both returned 'updated', and the slot holds
\* two files of the current name
C22_Witness ==
    \E r1, r2 \in Runs :
        /\ r1 # r2
        /\ run[r1].pipeline_name = run[r2].pipeline_name
        /\ run[r1].overlap /\ run[r2].overlap
        /\ run[r1].decision = "publish" /\ run[r2].decision = "publish"
        /\ run[r1].ret = "updated" /\ run[r2].ret = "updated"
        /\ SlotFiles(run[r1].pre, run[r1].pipeline_name) = {}
        /\ SlotFiles(run[r2].pre, run[r2].pipeline_name) = {}
        /\ Cardinality(SlotFiles(files, run[r1].pipeline_name)) = 2

\* the text holds this piece
Contains(s, piece) ==
    \E i \in 0..(Len(s) - Len(piece)) : SubSeq(s, i + 1, i + Len(piece)) = piece

\* C23: when runs overlap, the line of a run whose update_log returned True
\* is in the run log from then on, whatever the other run does.
C23_LoggedLinesStay ==
    \A r \in Runs :
        (run[r].pc = "return" /\ run[r].logged = "True")
        => \E f \in LogFiles(files) : Contains(f.content.text, run[r].log_line \o "\n")

\* C30: a run that overlaps with no other run and in which nothing fails
\* leaves every slot that held two or more files under the current name with
\* as many files under that name as it found: it skips, or it archives the
\* one file it picked and uploads one.
C30_DuplicatesStay ==
    \A r \in Runs :
        LET rr == run[r]
        IN  (rr.pc = "return" /\ ~rr.overlap /\ ~rr.faulty)
            => \A p \in Pipelines :
                  Cardinality(SlotFiles(rr.pre, p)) >= 2
                  => /\ Cardinality(SlotFiles(files, p)) = Cardinality(SlotFiles(rr.pre, p))
                     /\ p = rr.pipeline_name
                           => /\ rr.decision \in {"skip", "replace"}
                              /\ rr.decision = "skip"
                                    => SlotFiles(files, p) = SlotFiles(rr.pre, p)
                              /\ rr.decision = "replace"
                                    => /\ SlotFiles(rr.pre, p) \ SlotFiles(files, p)
                                             = {FileById(rr.pre, rr.existing_file)}
                                       /\ Cardinality(SlotFiles(files, p) \ SlotFiles(rr.pre, p)) = 1

\* a run alone on a slot holding two files has replaced one of them, and two
\* files are under the current name still
C30_Witness ==
    \E r \in Runs :
        /\ run[r].pc = "return"
        /\ ~run[r].overlap
        /\ run[r].decision = "replace"
        /\ run[r].ret = "updated"
        /\ Cardinality(SlotFiles(run[r].pre, run[r].pipeline_name)) = 2
        /\ Cardinality(SlotFiles(files, run[r].pipeline_name)) = 2
        /\ Cardinality(ArchiveFiles(files)) = 1

\* the first n characters of a text, each '-' turned into 'M'
RECURSIVE DashToM(_, _)
DashToM(s, n) ==
    IF n = 0 \/ Len(s) = 0 THEN ""
    ELSE (IF Char(s, 1) = "-" THEN "M" ELSE Char(s, 1))
             \o DashToM(IF Len(s) = 1 THEN "" ELSE SubSeq(s, 2, Len(s)), n - 1)

\* C24: a DateDownload occupant whose download_date is there but does not
\* parse is always replaced, archived under the first 7 characters of the
\* raw text with every '-' turned into 'M', followed by '_DateDownload'.
C24_UnparseableDate ==
    \A r \in Runs :
        LET rr == run[r]
            m == rr.existing_meta
        IN  (/\ Decided(rr)
             /\ m.edition_type = "DateDownload"
             /\ Truthy(m.download_date)
             /\ ~DateParses(m.download_date))
            => /\ rr.decision = "replace"
               /\ rr.existing_version.suffix = DashToM(m.download_date, 7) \o "_DateDownload"
               /\ m.download_date = "2025-13-40"
                     => rr.existing_version.suffix = "2025M13_DateDownload"
               /\ m.download_date = "??-??-????"
                     => rr.existing_version.suffix = "??M??M?_DateDownload"
               /\ m.download_date = "ieri"
                     => rr.existing_version.suffix = "ieri_DateDownload"
               /\ rr.archived = "True"
                     => \E f \in ArchiveFiles(files) :
                           /\ f.id = rr.existing_file
                           /\ f.name = Stem(rr.filename) \o "_"
                                          \o DashToM(m.download_date, 7) \o "_DateDownload.xlsx"

\* an occupant dated "??-??-????" has been archived under ??M??M?_DateDownload
C24_Witness ==
    \E r \in Runs :
        /\ run[r].decision = "replace"
        /\ run[r].existing_meta.edition_type = "DateDownload"
        /\ run[r].existing_meta.download_date = "??-??-????"
        /\ run[r].archived = "True"
        /\ \E f \in ArchiveFiles(files) :
              f.name = "Example_data_??M??M?_DateDownload.xlsx"

\* some character of the text is not whitespace
HasInk(s) == \E i \in 1..Len(s) : Char(s, i) \notin {" ", "\t", "\n", "\r", "\f"}

\* C25: the candidate is Edition-versioned, with the declared edition as its
\* value, exactly when the declared edition is not None and not blank after
\* trimming; otherwise it is DateDownload-versioned with the calendar month
\* of the resolution as its value, whatever the artifact's own metadata say.
C25_CandidateVersion ==
    \A r \in Runs :
        LET rr == run[r]
            e == rr.edition
            nv == rr.new_version
            declared == e # PyNone /\ HasInk(e)
        IN  rr.resolved_at # 0
            => /\ nv.type \in {"Edition", "DateDownload"}
               /\ nv.type = "Edition" <=> declared
               /\ nv.has_edition <=> declared
               /\ declared => nv.value = e
               /\ ~declared => nv.value = MonthName(rr.resolved_at)
               /\ e \in {PyNone, "", " ", "\t", " \n "} => nv.type = "DateDownload"
               /\ e \in {" 2025M10", "M"} => nv.type = "Edition"
               /\ rr.upload_status \in {"updated", "not_updated"}
                     => rr.version_info = nv.value \o "_" \o nv.type

\* a candidate declaring a blank edition, its artifact carrying the edition
\* 2025M09 inside, was published as the DateDownload version of the month
C25_Witness ==
    \E r \in Runs :
        /\ run[r].edition = " \n "
        /\ get_metadata_from_excel(run[r].buffer).edition = "2025M09"
        /\ run[r].new_version.type = "DateDownload"
        /\ run[r].new_version.value = "2025M11"
        /\ run[r].upload_status = "updated"

\* the same call of smart_upload, had the occupant carried an edition other
\* than the candidate's
WithValidOccupant(rr) ==
    LET meta == [edition |-> "2024M01", edition_type |-> "Edition",
                 download_date |-> "2024-01-15 10:00:00"]
    IN  [rr EXCEPT !.existing_meta = meta,
                   !.existing_version = EditionVersion(meta, rr.new_version.has_edition,
                                                       rr.new_version.value)]

\* C26: the result smart_upload returns for a replacement taken on the
\* no-metadata path differs from the one it returns for the replacement of an
\* occupant with valid metadata, so that the caller can record a warning.
C26_ResultTellsNoMetadata ==
    \A r \in Runs :
        LET rr == run[r]
        IN  (/\ rr.decision = "replace"
             /\ rr.existing_version.warning
             /\ rr.upload_status = "updated")
            => /\ WithValidOccupant(rr).existing_version.should_archive
               /\ ~WithValidOccupant(rr).existing_version.warning
               /\ UploadResult(rr) # UploadResult(WithValidOccupant(rr))

\* the artifacts of a store: its workbooks
Artifacts(fs) == {f \in fs : f.content.kind = "xlsx"}

\* the file is in a pipeline's slot under the current name, or in the archive
Kept(fs, g) ==
    \/ \E p \in Pipelines : g \in SlotFiles(fs, p)
    \/ ARCHIVE_FOLDER_ID \in g.parents

\* C27: under sequential runs, whatever store operations fail, no artifact
\* is lost: every workbook in the store is, after every step, still there
\* under its id with the same content, in its slot under the current name
\* or in the archive folder, and so is every workbook a step uploads.
C27_NoArtifactLost ==
    [][/\ \A f \in Artifacts(files) :
             \E g \in Artifacts(files') :
                 g.id = f.id /\ g.content = f.content /\ Kept(files', g)
       /\ \A g \in Artifacts(files') \ Artifacts(files) : Kept(files', g)]_vars

\* the workbook the first run uploaded is in the archive, as the first run
\* built it, its successor is in the slot, and the second run's log write
\* has failed
C27_Witness ==
    \E r \in Runs :
        /\ run[r].serial = 2
        /\ run[r].upload_status = "updated"
        /\ run[r].failed = {"update_log"}
        /\ \E f \in ArchiveFiles(files) :
              /\ f.id = run[r].existing_file
              /\ f \notin run[r].pre
              /\ f.content.data = 1
              /\ \E g \in run[r].pre : g.id = f.id /\ g.content = f.content
        /\ \E g \in SlotFiles(files, run[r].pipeline_name) :
              g.id = run[r].uploaded /\ g.content = run[r].buffer

\* C28: a run whose upload fails after its occupant was archived returns
\* 'error', its slot empty and the old occupant in the archive; a later run
\* of the pipeline in which nothing fails, finding the slot empty, takes the
\* first-write path, archives nothing and returns 'updated'.
C28_FailedUploadAfterArchive ==
    \A r \in Runs :
        LET rr == run[r]
            p == rr.pipeline_name
        IN  /\ (/\ rr.pc = "return"
                /\ rr.archived = "True"
                /\ "upload_excel_to_drive" \in rr.failed)
               => /\ ~rr.raised
                  /\ rr.ret = "error"
                  /\ SlotFiles(files, p) = {}
                  /\ \E f \in ArchiveFiles(files) :
                        f.id = rr.existing_file /\ f \notin ArchiveFiles(rr.pre)
            /\ (/\ rr.pc = "return"
                /\ ~rr.faulty
                /\ SlotFiles(rr.pre, p) = {}
                /\ ArchiveFiles(rr.pre) # {})
               => /\ rr.decision = "publish"
                  /\ rr.ret = "updated"
                  /\ ArchiveFiles(files) = ArchiveFiles(rr.pre)

\* C29: the metadata a pipeline's producer embeds are read back from the
\* file it published with the version kind the pipeline declared: an edition
\* pipeline's as 'Edition' with the edition it declared, a pipeline's without
\* edition as 'DateDownload' with the date of the download; the next run
\* never resolves that file as having no metadata.
C29_MetadataRoundTrip ==
    \A r \in Runs :
        LET rr == run[r]
            m == rr.existing_meta
        IN  (/\ Decided(rr)
             /\ "get_metadata_from_excel" \notin rr.failed
             /\ prev.pipeline_name = rr.pipeline_name
             /\ prev.ret = "updated"
             /\ FileById(files, rr.existing_file).content.data = rr.serial - 1)
            => /\ prev.edition # PyNone
                     => m.edition_type = "Edition" /\ m.edition = prev.edition
               /\ prev.edition = PyNone
                     => /\ m.edition_type = "DateDownload"
                        /\ Truthy(m.download_date)
                        /\ DateParses(m.download_date)
                        /\ MonthTokenOfText(m.download_date) = MonthName(prev.resolved_at)
               /\ ~rr.existing_version.warning

====
